---- MODULE Spec2Model ----
(***************************************************************************)
(* Model of the blflash flash-session driver (src/blflash/src/flasher.rs): *)
(* Flasher::connect, start_connection, handshake, load_eflash_loader and   *)
(* the three driver operations load_segments, check_segments, dump_flash.  *)
(*                                                                         *)
(* The driver is one sequential thread.  Every Connection call that talks  *)
(* to the serial port is a step whose outcome (success, I/O error, NAK,    *)
(* timeout, undecodable reply) is chosen by the environment.               *)
(***************************************************************************)
EXTENDS Integers, Sequences, FiniteSets, TLC

VARIABLES
    pc,        \* position of the driver thread
    state,     \* session state: Disconnected / RomBootloader / EflashLoader
    result,    \* result of the current top-level call ("none" while running)
    baud,      \* baud rate of the serial port
    timeout,   \* timeout of the serial port (ms)
    input,     \* arguments of connect and the chip's eflash loader blob length
    hs,        \* frame of the running handshake
    i,         \* loop variable of start_connection
    sc,        \* calls made by start_connection: resets, handshakes, ok, failed
    wire,      \* requests written to the link by the current top-level call
    call,      \* the running driver operation and its arguments
    seg,       \* index of the segment the driver loop is at
    cur,       \* flash address cursor (load_segments, dump_flash)
    reader,    \* position of the Cursor over the data being streamed
    sink,      \* number of bytes written to the dump_flash writer
    skipped,   \* segments skipped because the remote sha256 matched
    warned,    \* segments for which a sha256 mismatch was logged
    ops,       \* number of driver operations started in this session
    chip       \* the chip at the other end of the link

vars == <<pc, state, result, baud, timeout, input, hs, i, sc, wire, call,
          seg, cur, reader, sink, skipped, warned, ops, chip>>

(***************************************************************************)
(* Program constants                                                       *)
(***************************************************************************)
HANDSHAKE_TIMEOUT_MS == 200
CONNECT_TIMEOUT_MS == 10000
HANDSHAKE_READS == 5
CONNECT_ATTEMPTS == 10
CHUNK_SIZE == 4000
BLOCK_SIZE == 4096
LOAD_BOOT_HEADER_LEN == 176
LOAD_SEGMENT_HEADER_LEN == 16
U16 == 65536

(***************************************************************************)
(* Bounds of the model                                                     *)
(***************************************************************************)
MaxOps == 2
MaxSegs == 2
MaxBlocks == 2
MaxReads == 3

Min(a, b) == IF a < b THEN a ELSE b

Bauds == {115200, 2000000}
InitialSpeeds == {115200}
PortTimeouts == {1000}
PortBauds == {9600}
LoaderLens == {LOAD_BOOT_HEADER_LEN + LOAD_SEGMENT_HEADER_LEN,
               LOAD_BOOT_HEADER_LEN + LOAD_SEGMENT_HEADER_LEN + CHUNK_SIZE + 1}

\* Outcomes the environment can give to a Connection call.
IoOutcomes == {"Ok", "Io"}
RespOutcomes == {"Ack", "Nack", "Timeout", "Io"}
DecodedOutcomes == RespOutcomes \cup {"Decode"}

\* The error a failed call returns.
ErrOf(o) == o

\* Connection::calc_duration_length(d): bytes that fit in d ms at the current
\* baud, 10 bits per byte: floor(baud * d / 1000 / 10).
calc_duration_length(b, ms) == (b * ms) \div 10000

(***************************************************************************)
(* Wire log: one entry per request handed to write_all.  st is the session *)
(* state at that moment, resp the outcome of the exchange, same whether    *)
(* the digest in an ACKed Sha256Read response equals the local sha256.     *)
(***************************************************************************)
Req(kind, addr, arg, size, len, sg, role, resp, same) ==
    [kind |-> kind, addr |-> addr, arg |-> arg, size |-> size, len |-> len,
     seg |-> sg, role |-> role, resp |-> resp, same |-> same, st |-> state]

FlashKinds == {"FlashErase", "FlashProgram", "FlashRead", "Sha256Read"}
LoaderKinds == {"LoadBootHeader", "LoadSegmentHeader", "LoadSegmentData",
                "CheckImage", "RunImage"}

NoHs == [caller |-> "none", old |-> 0, pre |-> 0, reads |-> 0, failed |-> 0,
         bursts |-> 0, res |-> "none"]
NoSc == [resets |-> 0, calls |-> 0, ok |-> 0, failed |-> 0]
NoCall == [op |-> "none", force |-> FALSE, segments |-> <<>>, addrs |-> <<>>,
           range |-> <<0, 0>>, baud0 |-> 0]

(***************************************************************************)
(* Inputs                                                                  *)
(***************************************************************************)
SegSizes == {0, (MaxBlocks - 1) * CHUNK_SIZE + 1, MaxBlocks * CHUNK_SIZE}
\* RomSegment: addr and data; size() is data.len().  call.segments holds the
\* sizes, call.addrs the 64 KiB sector each segment starts at.  The
\* data of a segment is identified by its address and size.
SegAddr(n) == call.addrs[n] * 65536
Segments(n) == [1..n -> SegSizes]
\* Every segment at a sector of its own: the segments do not overlap.
OwnAddrs(segments) == [n \in 1..Len(segments) |-> n]
\* Every segment at the first sector: the segments overlap.
SameAddrs(segments) == [n \in 1..Len(segments) |-> 1]
SegmentLists == UNION {Segments(n) : n \in 0..MaxSegs}
DumpRanges == {<<0, 0>>, <<0, 2048>>, <<0, BLOCK_SIZE>>, <<0, 2 * BLOCK_SIZE + 2048>>}

(***************************************************************************)
(* The chip at the other end of the link.  A "scripted" chip gives every   *)
(* exchange the outcome the environment picks.  A "functioning" chip keeps *)
(* the flash: erase and program change it and Sha256Read reports its       *)
(* digest.  A "late" chip answers every training burst once, at any time   *)
(* after the burst; sent, answered and consumed count the bursts written,  *)
(* the replies that reached the port and the replies read from it.         *)
(***************************************************************************)
NoData == [data |-> 0, len |-> 0]
Garbage == [data |-> -1, len |-> 0]
Chip(kind) ==
    [kind |-> kind, flash |-> [a \in 1..MaxSegs |-> NoData], prev |-> NoCall,
     sent |-> 0, answered |-> 0, consumed |-> 0, stale |-> FALSE]

SectorOf(addr) == addr \div 65536
OffsetOf(addr) == addr % 65536

\* flash[addr .. addr + n) is the data of the segment of n bytes at addr.
FlashHolds(addr, n) ==
    \/ n = 0
    \/ chip.flash[SectorOf(addr)] = [data |-> n, len |-> n]

\* The digest a functioning chip answers Sha256Read(addr, n) with equals the
\* local sha256 of the segment exactly when the flash holds its data.
ChipDigest(addr, n, same) ==
    chip.kind = "functioning" => (same <=> FlashHolds(addr, n))

\* The chip after an ACKed FlashErase(addr, end).
ChipErased(addr, end) ==
    IF chip.kind = "functioning" /\ end > addr
    THEN [chip EXCEPT !.flash[SectorOf(addr)] = NoData]
    ELSE chip

\* The chip after an ACKed FlashProgram(at, bytes pos .. pos + n of the data
\* of the segment of d bytes): the data grows when the bytes land where they
\* belong, on top of the bytes that precede them.
ChipProgrammed(at, d, pos, n) ==
    IF chip.kind = "functioning"
    THEN LET old == chip.flash[SectorOf(at)]
             fits == /\ OffsetOf(at) = pos
                     /\ pos = 0 \/ old = [data |-> d, len |-> pos]
         IN [chip EXCEPT !.flash[SectorOf(at)] =
                IF fits THEN [data |-> d, len |-> pos + n] ELSE Garbage]
    ELSE chip

\* The chip after a training burst was written to it.
ChipBurst ==
    IF chip.kind = "late" THEN [chip EXCEPT !.sent = @ + 1] ELSE chip

\* read_response on the port of a late chip: Ok exactly when a reply is
\* waiting, else the read times out.
ChipAnswers(o) ==
    chip.kind = "late" =>
        IF chip.consumed < chip.answered THEN o = "Ack" ELSE o = "Timeout"

\* The chip after the handshake has read a reply: the reply is a leftover
\* when it answers a burst older than the last one written.
ChipConsumed(o) ==
    IF chip.kind = "late" /\ o = "Ack"
    THEN [chip EXCEPT !.consumed = @ + 1,
                      !.stale = @ \/ chip.consumed + 1 < chip.sent]
    ELSE chip

\* The chip after a command was written and its response read: the bytes
\* read are a leftover when a reply to a burst still waits in the port.
ChipCommand ==
    IF chip.kind = "late"
    THEN [chip EXCEPT !.stale = @ \/ chip.consumed < chip.answered]
    ELSE chip

\* The state after the caller has opened the port, before connect, with a
\* chip of the given kind at the other end.
Start(kind) ==
    /\ pc = "connect"
    /\ state = "Disconnected"
    /\ result = "none"
    /\ input \in [initial_speed : InitialSpeeds, flash_speed : Bauds,
                  loader_len : LoaderLens, port_baud : PortBauds,
                  port_timeout : PortTimeouts]
    /\ baud = input.port_baud
    /\ timeout = input.port_timeout
    /\ hs = NoHs
    /\ i = 0
    /\ sc = NoSc
    /\ wire = <<>>
    /\ call = NoCall
    /\ seg = 0
    /\ cur = 0
    /\ reader = 0
    /\ sink = 0
    /\ skipped = {}
    /\ warned = {}
    /\ ops = 0
    /\ chip = Chip(kind)

Init == Start("scripted")

opvars == <<call, seg, cur, reader, sink, skipped, warned, ops>>

(***************************************************************************)
(* Flasher::connect up to start_connection                                 *)
(***************************************************************************)
\* connect returns Err(e): no Flasher exists.
ConnectFail(e) ==
    /\ pc' = "dead"
    /\ result' = e

\* connect: build the Flasher, connection.set_baud(initial_speed)?
Connect(o) ==
    /\ pc = "connect"
    /\ IF o = "Ok"
       THEN /\ baud' = input.initial_speed
            /\ pc' = "reset_to_flash"
            /\ UNCHANGED result
       ELSE /\ ConnectFail(ErrOf(o))
            /\ UNCHANGED baud
    /\ UNCHANGED <<state, timeout, input, hs, i, sc, wire, opvars>>
    /\ UNCHANGED chip

\* start_connection: connection.reset_to_flash()?
StartConnection(o) ==
    /\ pc = "reset_to_flash"
    /\ sc' = [sc EXCEPT !.resets = @ + 1]
    /\ IF o = "Ok"
       THEN /\ i' = 1
            /\ pc' = "start_connection"
            /\ UNCHANGED result
       ELSE /\ ConnectFail(ErrOf(o))
            /\ UNCHANGED i
    /\ UNCHANGED <<state, baud, timeout, input, hs, wire, opvars>>
    /\ UNCHANGED chip

(***************************************************************************)
(* Flasher::handshake                                                      *)
(***************************************************************************)
\* Connection::with_timeout, entry: remember the port's timeout, then set the
\* override t.
WithTimeoutEnter(t, caller) ==
    /\ hs' = [NoHs EXCEPT !.caller = caller, !.old = timeout, !.pre = timeout]
    /\ timeout' = t

\* Connection::with_timeout, exit: the port's timeout is the remembered one
\* again, whatever the body returned.
WithTimeoutRestore == hs.old

\* handshake is called: its closure runs under with_timeout(200 ms).
HandshakeEnter(caller) ==
    /\ WithTimeoutEnter(HANDSHAKE_TIMEOUT_MS, caller)
    /\ pc' = "handshake_write"

\* Mutant of HandshakeReturn: the body not run as a closure of with_timeout,
\* so that an error leaves handshake before the timeout is put back.
HandshakeReturnEarly(r, frame) ==
    /\ hs' = [frame EXCEPT !.res = r]
    /\ timeout' = IF r = "Ok" THEN WithTimeoutRestore ELSE timeout
    /\ pc' = "handshake_return"

\* The closure of handshake returns r to with_timeout, which restores the
\* timeout and hands r to the caller of handshake.
HandshakeReturn(r, frame) ==
    /\ hs' = [frame EXCEPT !.res = r]
    /\ timeout' = WithTimeoutRestore
    /\ pc' = "handshake_return"

\* start_connection, one round of the loop: connection.flush()?, handshake().
StartConnectionRound(o) ==
    /\ pc = "start_connection"
    /\ i <= CONNECT_ATTEMPTS
    /\ IF o = "Ok"
       THEN /\ HandshakeEnter("start_connection")
            /\ sc' = [sc EXCEPT !.calls = @ + 1]
            /\ UNCHANGED result
       ELSE /\ ConnectFail(ErrOf(o))
            /\ UNCHANGED <<hs, timeout, sc>>
    /\ UNCHANGED <<state, baud, input, i, wire, opvars>>
    /\ UNCHANGED chip

\* handshake: write the 0x55 training burst and flush, then sleep 200 ms.
HandshakeWrite(o) ==
    /\ pc = "handshake_write"
    /\ wire' = Append(wire, Req("Burst", 0, 0,
                                calc_duration_length(baud, 5), 0, 0, "-", "-", FALSE))
    /\ IF o = "Ok"
       THEN /\ hs' = [hs EXCEPT !.bursts = @ + 1]
            /\ pc' = "handshake_read"
            /\ UNCHANGED timeout
       ELSE /\ HandshakeReturn(ErrOf(o), [hs EXCEPT !.bursts = @ + 1])
    /\ chip' = IF o = "Ok" THEN ChipBurst ELSE chip
    /\ UNCHANGED <<state, result, baud, input, i, sc, opvars>>

\* Mutant of LastRead: the range written `0..4`, one attempt short.
LastReadShort(n) == n = HANDSHAKE_READS - 1

\* `for _ in 0..5`: attempt n is the last one.
LastRead(n) == n = HANDSHAKE_READS

\* handshake: one round of `for _ in 0..5`: read_response(0); Ok ends the
\* handshake, the fifth failure ends it with Timeout.
HandshakeRead(o) ==
    /\ pc = "handshake_read"
    /\ hs.reads < HANDSHAKE_READS
    /\ ChipAnswers(o)
    /\ chip' = ChipConsumed(o)
    /\ IF o = "Ack"
       THEN HandshakeReturn("Ok", [hs EXCEPT !.reads = @ + 1])
       ELSE IF LastRead(hs.reads + 1)
            THEN HandshakeReturn("Timeout", [hs EXCEPT !.reads = @ + 1,
                                                       !.failed = @ + 1])
            ELSE /\ hs' = [hs EXCEPT !.reads = @ + 1, !.failed = @ + 1]
                 /\ UNCHANGED <<timeout, pc>>
    /\ UNCHANGED <<state, result, baud, input, i, sc, wire, opvars>>

(***************************************************************************)
(* Returns to the callers                                                  *)
(***************************************************************************)
\* connect or a driver operation returns r to the caller of the Flasher.
OpReturn(r) ==
    /\ pc' = "returned"
    /\ result' = r

BodyOf(op) == op

\* Mutant of LoadEflashLoaderReturn: the result of load_eflash_loader is
\* dropped (no `?`), the body of the operation runs whatever it was.
LoadEflashLoaderIgnored(r) ==
    /\ state' = IF r = "Ok" THEN "EflashLoader" ELSE state
    /\ pc' = BodyOf(call.op)
    /\ UNCHANGED result

\* load_eflash_loader returns r to `self.load_eflash_loader()?` of the
\* running driver operation: an error ends the operation, Ok enters its body.
LoadEflashLoaderReturn(r) ==
    IF r = "Ok"
    THEN /\ state' = "EflashLoader"
         /\ pc' = BodyOf(call.op)
         /\ UNCHANGED result
    ELSE /\ OpReturn(r)
         /\ UNCHANGED state

\* Mutant of LastRound: the range written `1..10`, one round short.
LastRoundExclusive(n) == n = CONNECT_ATTEMPTS - 1

\* `for i in 1..=10`: round n is the last one.
LastRound(n) == n = CONNECT_ATTEMPTS

\* handshake returns to start_connection: Ok ends start_connection with Ok,
\* a failure goes to the next round, the tenth failure is ConnectionFailed.
StartConnectionResume(r) ==
    IF r = "Ok"
    THEN /\ sc' = [sc EXCEPT !.ok = @ + 1]
         /\ state' = "RomBootloader"
         /\ pc' = "set_timeout"
         /\ UNCHANGED <<result, i>>
    ELSE /\ sc' = [sc EXCEPT !.failed = @ + 1]
         /\ UNCHANGED state
         /\ IF LastRound(i)
            THEN /\ ConnectFail("ConnectionFailed")
                 /\ UNCHANGED i
            ELSE /\ i' = i + 1
                 /\ pc' = "start_connection"
                 /\ UNCHANGED result

\* handshake returns to its caller.
HandshakeResume ==
    /\ pc = "handshake_return"
    /\ hs' = NoHs
    /\ IF hs.caller = "start_connection"
       THEN StartConnectionResume(hs.res)
       ELSE /\ LoadEflashLoaderReturn(hs.res)
            /\ UNCHANGED <<sc, i>>
    /\ UNCHANGED <<baud, timeout, input, wire, opvars>>
    /\ UNCHANGED chip

(***************************************************************************)
(* Flasher::connect after start_connection                                 *)
(***************************************************************************)
\* Mutant of ConnectSetTimeout: the value is not handed to the port.
ConnectSetTimeoutSkipped(o) ==
    /\ pc = "set_timeout"
    /\ IF o = "Ok"
       THEN /\ pc' = "get_boot_info"
            /\ UNCHANGED <<result, timeout>>
       ELSE /\ ConnectFail(ErrOf(o))
            /\ UNCHANGED timeout
    /\ UNCHANGED <<state, baud, input, hs, i, sc, wire, opvars>>
    /\ UNCHANGED chip

\* connect: connection.set_timeout(10 s)?
ConnectSetTimeout(o) ==
    /\ pc = "set_timeout"
    /\ IF o = "Ok"
       THEN /\ timeout' = CONNECT_TIMEOUT_MS
            /\ pc' = "get_boot_info"
            /\ UNCHANGED result
       ELSE /\ ConnectFail(ErrOf(o))
            /\ UNCHANGED timeout
    /\ UNCHANGED <<state, baud, input, hs, i, sc, wire, opvars>>
    /\ UNCHANGED chip

\* connect: boot_info = get_boot_info()?; Ok(flasher)
GetBootInfo(o) ==
    /\ pc = "get_boot_info"
    /\ wire' = Append(wire, Req("GetBootInfo", 0, 0, 0, 0, 0, "-", o, FALSE))
    /\ IF o = "Ack"
       THEN OpReturn("Ok")
       ELSE ConnectFail(ErrOf(o))
    /\ chip' = ChipCommand
    /\ UNCHANGED <<state, baud, timeout, input, hs, i, sc, opvars>>

(***************************************************************************)
(* The caller of the Flasher starts a driver operation                     *)
(***************************************************************************)
\* The caller has the Ok of the last call; the locals of that call are gone
\* and the Flasher is ready for the next one.  After an error the caller
\* drops the session (spec.md section 3: a failed session is unusable).
Returned ==
    /\ pc = "returned"
    /\ result = "Ok"
    /\ pc' = "idle"
    /\ result' = "none"
    /\ wire' = <<>>
    /\ sc' = NoSc
    /\ i' = 0
    /\ call' = NoCall
    /\ seg' = 0
    /\ cur' = 0
    /\ reader' = 0
    /\ sink' = 0
    /\ skipped' = {}
    /\ warned' = {}
    /\ chip' = IF chip.kind = "functioning" /\ call.op = "load_segments"
               THEN [chip EXCEPT !.prev = [call EXCEPT !.baud0 = 0]]
               ELSE chip
    /\ UNCHANGED <<state, baud, timeout, input, hs, ops>>

\* baud0 remembers the baud the operation starts at.
Call(c, start) ==
    /\ pc = "idle"
    /\ ops < MaxOps
    /\ ops' = ops + 1
    /\ call' = [c EXCEPT !.baud0 = baud]
    /\ pc' = "load_eflash_loader"
    /\ seg' = 1
    /\ cur' = start
    /\ UNCHANGED <<state, result, baud, timeout, input, hs, i, sc, wire,
                   reader, sink, skipped, warned>>
    /\ UNCHANGED chip

\* load_segments(force, segments) with the segments at the sectors addrs.
CallLoadSegmentsAt(force, segments, addrs) ==
    Call([NoCall EXCEPT !.op = "load_segments", !.force = force,
                        !.segments = segments, !.addrs = addrs], 0)

CallLoadSegments(force, segments) ==
    CallLoadSegmentsAt(force, segments, OwnAddrs(segments))

CallCheckSegments(segments) ==
    Call([NoCall EXCEPT !.op = "check_segments", !.segments = segments,
                        !.addrs = OwnAddrs(segments)], 0)

CallDumpFlash(range) ==
    Call([NoCall EXCEPT !.op = "dump_flash", !.range = range], range[1])

(***************************************************************************)
(* Flasher::load_eflash_loader                                             *)
(***************************************************************************)
\* Mutant of LenField: update() is not called, the field keeps its default.
LenFieldStale(n) == 0

\* The u16 length field deku writes for a Vec<u8> of n bytes.
LenField(n) == n % U16

\* load_boot_header: the first 176 bytes of the blob, one request, ACK.
LoadBootHeader(o) ==
    /\ pc = "load_eflash_loader"
    /\ reader' = LOAD_BOOT_HEADER_LEN
    /\ wire' = Append(wire, Req("LoadBootHeader", 0, 0, LOAD_BOOT_HEADER_LEN,
                                LenField(LOAD_BOOT_HEADER_LEN), 0, "-", o, FALSE))
    /\ IF o = "Ack"
       THEN /\ pc' = "load_segment_header"
            /\ UNCHANGED <<state, result>>
       ELSE LoadEflashLoaderReturn(ErrOf(o))
    /\ UNCHANGED <<baud, timeout, input, hs, i, sc, call, seg, cur, sink,
                   skipped, warned, ops>>
    /\ UNCHANGED chip

\* load_segment_header: the next 16 bytes, one request, 18-byte response
\* (an echo that differs is logged only).
LoadSegmentHeader(o) ==
    /\ pc = "load_segment_header"
    /\ reader' = reader + LOAD_SEGMENT_HEADER_LEN
    /\ wire' = Append(wire, Req("LoadSegmentHeader", 0, 0,
                                LOAD_SEGMENT_HEADER_LEN,
                                LenField(LOAD_SEGMENT_HEADER_LEN), 0, "-", o, FALSE))
    /\ IF o = "Ack"
       THEN /\ pc' = "load_segment_data"
            /\ UNCHANGED <<state, result>>
       ELSE LoadEflashLoaderReturn(ErrOf(o))
    /\ UNCHANGED <<baud, timeout, input, hs, i, sc, call, seg, cur, sink,
                   skipped, warned, ops>>
    /\ UNCHANGED chip

\* Mutant of ReadLen: the Cursor gives data on its first read only.
ReadLenOnce(len, pos) == IF pos = 0 THEN Min(CHUNK_SIZE, len) ELSE 0

\* Cursor::read into a buffer of CHUNK_SIZE bytes: what is left, at most
\* CHUNK_SIZE.
ReadLen(len, pos) == Min(CHUNK_SIZE, len - pos)

\* load_segment_data, one call of the loop: a read of 0 bytes sends nothing
\* and ends the loop.
LoadSegmentData(o) ==
    /\ pc = "load_segment_data"
    /\ LET n == ReadLen(input.loader_len, reader) IN
       IF n = 0
       THEN /\ pc' = "check_image"
            /\ UNCHANGED <<state, result, wire, reader>>
       ELSE /\ reader' = reader + n
            /\ wire' = Append(wire, Req("LoadSegmentData", 0, 0, n, LenField(n),
                                        0, "-", o, FALSE))
            /\ IF o = "Ack"
               THEN UNCHANGED <<pc, state, result>>
               ELSE LoadEflashLoaderReturn(ErrOf(o))
    /\ UNCHANGED <<baud, timeout, input, hs, i, sc, call, seg, cur, sink,
                   skipped, warned, ops>>
    /\ UNCHANGED chip

CheckImage(o) ==
    /\ pc = "check_image"
    /\ wire' = Append(wire, Req("CheckImage", 0, 0, 0, 0, 0, "-", o, FALSE))
    /\ IF o = "Ack"
       THEN /\ pc' = "run_image"
            /\ UNCHANGED <<state, result>>
       ELSE LoadEflashLoaderReturn(ErrOf(o))
    /\ UNCHANGED <<baud, timeout, input, hs, i, sc, opvars>>
    /\ UNCHANGED chip

\* Mutant of RunImage: the result of run_image is dropped (no `?`).
RunImageUnchecked(o) ==
    /\ pc = "run_image"
    /\ wire' = Append(wire, Req("RunImage", 0, 0, 0, 0, 0, "-", o, FALSE))
    /\ pc' = "set_baud"
    /\ UNCHANGED <<state, result>>
    /\ UNCHANGED <<baud, timeout, input, hs, i, sc, opvars>>
    /\ UNCHANGED chip

RunImage(o) ==
    /\ pc = "run_image"
    /\ wire' = Append(wire, Req("RunImage", 0, 0, 0, 0, 0, "-", o, FALSE))
    /\ IF o = "Ack"
       THEN /\ pc' = "set_baud"
            /\ UNCHANGED <<state, result>>
       ELSE LoadEflashLoaderReturn(ErrOf(o))
    /\ UNCHANGED <<baud, timeout, input, hs, i, sc, opvars>>
    /\ UNCHANGED chip

\* sleep 500 ms, connection.set_baud(flash_speed)?, handshake()
LoaderSetBaud(o) ==
    /\ pc = "set_baud"
    /\ IF o = "Ok"
       THEN /\ baud' = input.flash_speed
            /\ HandshakeEnter("load_eflash_loader")
            /\ UNCHANGED <<state, result>>
       ELSE /\ LoadEflashLoaderReturn(ErrOf(o))
            /\ UNCHANGED <<baud, hs, timeout>>
    /\ UNCHANGED <<input, i, sc, wire, opvars>>
    /\ UNCHANGED chip

(***************************************************************************)
(* Flasher::load_segments                                                  *)
(***************************************************************************)
SegSize(n) == call.segments[n]

\* protocol::FlashProgram::len: data.len() as u16 + 4
FlashProgramLen(n) == ((n % U16) + 4) % U16

\* `for segment in segments` is exhausted: Ok(())
LoadSegmentsDone ==
    /\ pc = "load_segments"
    /\ seg > Len(call.segments)
    /\ OpReturn("Ok")
    /\ UNCHANGED <<state, baud, timeout, input, hs, i, sc, wire, opvars>>
    /\ UNCHANGED chip

\* Mutant of AfterHash: `force` is not looked at.
AfterHashIgnoreForce(force) == "sha256_read"

\* The next segment: local_hash, then `if !force` the sha256 comparison,
\* else straight to the erase.
AfterHash(force) == IF force THEN "flash_erase" ELSE "sha256_read"

LoadSegmentsNext ==
    /\ pc = "load_segments"
    /\ seg <= Len(call.segments)
    /\ pc' = AfterHash(call.force)
    /\ UNCHANGED <<state, result, baud, timeout, input, hs, i, sc, wire,
                   opvars>>
    /\ UNCHANGED chip

\* Mutant of SkipSegment: the comparison never holds.
SkipNever(remoteMatches) == FALSE

\* The comparison `sha256 == local_hash` of the skip test.
SkipSegment(remoteMatches) == remoteMatches

\* Mutant of SkipCheck: the `continue` after the skip message is missing, a
\* matching segment is erased and programmed like any other.
SkipCheckFallsThrough(o, same) ==
    /\ pc = "sha256_read"
    /\ ChipDigest(SegAddr(seg), SegSize(seg), same)
    /\ wire' = Append(wire, Req("Sha256Read", SegAddr(seg), SegSize(seg), 0, 0,
                                seg, "pre", o, o = "Ack" /\ same))
    /\ IF o = "Ack"
       THEN /\ skipped' = IF SkipSegment(same) THEN skipped \cup {seg}
                          ELSE skipped
            /\ pc' = "flash_erase"
            /\ UNCHANGED <<result, seg>>
       ELSE /\ OpReturn(ErrOf(o))
            /\ UNCHANGED <<skipped, seg>>
    /\ UNCHANGED <<state, baud, timeout, input, hs, i, sc, call, cur, reader,
                   sink, warned, ops>>
    /\ UNCHANGED chip

\* sha256_read(segment.addr, segment.size())? before any modification;
\* a matching digest skips the segment (`continue`).  same: the digest the
\* chip answers with equals local_hash.
SkipCheck(o, same) ==
    /\ pc = "sha256_read"
    /\ ChipDigest(SegAddr(seg), SegSize(seg), same)
    /\ wire' = Append(wire, Req("Sha256Read", SegAddr(seg), SegSize(seg), 0, 0,
                                seg, "pre", o, o = "Ack" /\ same))
    /\ IF o = "Ack"
       THEN /\ IF SkipSegment(same)
               THEN /\ skipped' = skipped \cup {seg}
                    /\ seg' = seg + 1
                    /\ pc' = "load_segments"
               ELSE /\ pc' = "flash_erase"
                    /\ UNCHANGED <<skipped, seg>>
            /\ UNCHANGED result
       ELSE /\ OpReturn(ErrOf(o))
            /\ UNCHANGED <<skipped, seg>>
    /\ UNCHANGED <<state, baud, timeout, input, hs, i, sc, call, cur, reader,
                   sink, warned, ops>>
    /\ UNCHANGED chip

\* Mutant of EraseEnd: the size passed where the end address belongs.
EraseEndIsSize(addr, n) == n

\* The end argument of the erase: segment.addr + segment.size().  The
\* addresses of the model stay far below 2^32, so the u32 sum does not wrap.
EraseEnd(addr, n) == addr + n

\* Mutant of NextCur: the cursor is not advanced.
NextCurStuck(c, n) == c

\* `cur += size` of the program loop.
NextCur(c, n) == c + n

\* Mutant of FlashErase: the result of flash_erase is dropped (no `?`).
FlashEraseUnchecked(o) ==
    /\ pc = "flash_erase"
    /\ wire' = Append(wire, Req("FlashErase", SegAddr(seg),
                                EraseEnd(SegAddr(seg), SegSize(seg)), 0, 0,
                                seg, "-", o, FALSE))
    /\ reader' = 0
    /\ cur' = SegAddr(seg)
    /\ pc' = "flash_program"
    /\ chip' = IF o = "Ack"
               THEN ChipErased(SegAddr(seg), EraseEnd(SegAddr(seg), SegSize(seg)))
               ELSE chip
    /\ UNCHANGED <<state, result, baud, timeout, input, hs, i, sc, call, seg,
                   sink, skipped, warned, ops>>

\* flash_erase(segment.addr, segment.addr + segment.size())?, then the
\* Cursor over segment.data and cur = segment.addr.
FlashErase(o) ==
    /\ pc = "flash_erase"
    /\ wire' = Append(wire, Req("FlashErase", SegAddr(seg),
                                EraseEnd(SegAddr(seg), SegSize(seg)), 0, 0,
                                seg, "-", o, FALSE))
    /\ IF o = "Ack"
       THEN /\ reader' = 0
            /\ cur' = SegAddr(seg)
            /\ pc' = "flash_program"
            /\ UNCHANGED result
       ELSE /\ OpReturn(ErrOf(o))
            /\ UNCHANGED <<reader, cur>>
    /\ chip' = IF o = "Ack"
               THEN ChipErased(SegAddr(seg), EraseEnd(SegAddr(seg), SegSize(seg)))
               ELSE chip
    /\ UNCHANGED <<state, baud, timeout, input, hs, i, sc, call, seg, sink,
                   skipped, warned, ops>>

\* One round of the program loop: flash_program(cur, &mut reader)?,
\* cur += size, `if size == 0 { break }`.
FlashProgram(o) ==
    /\ pc = "flash_program"
    /\ LET n == ReadLen(SegSize(seg), reader) IN
       IF n = 0
       THEN /\ pc' = "sha256_verify"
            /\ UNCHANGED <<result, wire, reader, cur, chip>>
       ELSE /\ reader' = reader + n
            /\ wire' = Append(wire, Req("FlashProgram", cur, 0, n,
                                        FlashProgramLen(n), seg, "-", o, FALSE))
            /\ IF o = "Ack"
               THEN /\ cur' = NextCur(cur, n)
                    /\ chip' = ChipProgrammed(cur, SegSize(seg), reader, n)
                    /\ UNCHANGED <<pc, result>>
               ELSE /\ OpReturn(ErrOf(o))
                    /\ UNCHANGED <<cur, chip>>
    /\ UNCHANGED <<state, baud, timeout, input, hs, i, sc, call, seg, sink,
                   skipped, warned, ops>>

\* Mutant of VerifyResult: a mismatch is returned as an error.
VerifyStrict(same) == IF same THEN "Ok" ELSE "Sha256Mismatch"

\* What load_segments does with the digest read back after programming:
\* a mismatch is logged with log::warn!, the loop goes on.
VerifyResult(same) == "Ok"

\* sha256_read(segment.addr, segment.size())? after programming.
Verify(o, same) ==
    /\ pc = "sha256_verify"
    /\ ChipDigest(SegAddr(seg), SegSize(seg), same)
    /\ wire' = Append(wire, Req("Sha256Read", SegAddr(seg), SegSize(seg), 0, 0,
                                seg, "verify", o, o = "Ack" /\ same))
    /\ IF o = "Ack"
       THEN /\ warned' = IF same THEN warned ELSE warned \cup {seg}
            /\ IF VerifyResult(same) = "Ok"
               THEN /\ seg' = seg + 1
                    /\ pc' = "load_segments"
                    /\ UNCHANGED result
               ELSE /\ OpReturn(VerifyResult(same))
                    /\ UNCHANGED seg
       ELSE /\ OpReturn(ErrOf(o))
            /\ UNCHANGED <<warned, seg>>
    /\ UNCHANGED <<state, baud, timeout, input, hs, i, sc, call, cur, reader,
                   sink, skipped, ops>>
    /\ UNCHANGED chip

(***************************************************************************)
(* Flasher::check_segments                                                 *)
(***************************************************************************)
CheckSegmentsDone ==
    /\ pc = "check_segments"
    /\ seg > Len(call.segments)
    /\ OpReturn("Ok")
    /\ UNCHANGED <<state, baud, timeout, input, hs, i, sc, wire, opvars>>
    /\ UNCHANGED chip

\* Mutant of CheckResult: a mismatch is returned as an error.
CheckStrict(same) == IF same THEN "Ok" ELSE "Sha256Mismatch"

\* What check_segments does with the digest: a mismatch is logged with
\* log::warn!, a match with log::info!, the loop goes on.
CheckResult(same) == "Ok"

\* One segment: local_hash, sha256_read(addr, size)?, log match or mismatch.
CheckSegment(o, same) ==
    /\ pc = "check_segments"
    /\ seg <= Len(call.segments)
    /\ ChipDigest(SegAddr(seg), SegSize(seg), same)
    /\ wire' = Append(wire, Req("Sha256Read", SegAddr(seg), SegSize(seg), 0, 0,
                                seg, "check", o, o = "Ack" /\ same))
    /\ IF o = "Ack"
       THEN /\ warned' = IF same THEN warned
                         ELSE warned \cup {seg}
            /\ IF CheckResult(same) = "Ok"
               THEN /\ seg' = seg + 1
                    /\ UNCHANGED <<pc, result>>
               ELSE /\ OpReturn(CheckResult(same))
                    /\ UNCHANGED seg
       ELSE /\ OpReturn(ErrOf(o))
            /\ UNCHANGED <<warned, seg>>
    /\ UNCHANGED <<state, baud, timeout, input, hs, i, sc, call, cur, reader,
                   sink, skipped, ops>>
    /\ UNCHANGED chip

(***************************************************************************)
(* Flasher::dump_flash                                                     *)
(***************************************************************************)
\* Payload lengths the chip may answer a FlashRead of n bytes with.
PayloadLens(n) == {0, n, n + 1}

FlashReads == Len(SelectSeq(wire, LAMBDA r : r.kind = "FlashRead"))

\* `while cur < range.end` is over: Ok(())
DumpFlashDone ==
    /\ pc = "dump_flash"
    /\ cur >= call.range[2]
    /\ OpReturn("Ok")
    /\ UNCHANGED <<state, baud, timeout, input, hs, i, sc, wire, opvars>>
    /\ UNCHANGED chip

\* One round: flash_read(cur, min(range.end - cur, BLOCK_SIZE))?,
\* writer.write_all(&data)?, cur += data.len().
DumpFlashRead(o, n) ==
    /\ pc = "dump_flash"
    /\ cur < call.range[2]
    /\ FlashReads < MaxReads
    /\ wire' = Append(wire, Req("FlashRead", cur,
                                Min(call.range[2] - cur, BLOCK_SIZE), 0, 0, 0,
                                "-", o, FALSE))
    /\ IF o = "Ack"
       THEN /\ sink' = sink + n
            /\ cur' = cur + n
            /\ UNCHANGED <<pc, result>>
       ELSE /\ OpReturn(IF o = "SinkIo" THEN "Io" ELSE ErrOf(o))
            /\ UNCHANGED <<sink, cur>>
    /\ UNCHANGED <<state, baud, timeout, input, hs, i, sc, call, seg, reader,
                   skipped, warned, ops>>
    /\ UNCHANGED chip

(***************************************************************************)
(* Specification                                                           *)
(***************************************************************************)
Next ==
    \/ \E o \in IoOutcomes : Connect(o)
    \/ \E o \in IoOutcomes : StartConnection(o)
    \/ \E o \in IoOutcomes : StartConnectionRound(o)
    \/ \E o \in IoOutcomes : HandshakeWrite(o)
    \/ \E o \in RespOutcomes : HandshakeRead(o)
    \/ HandshakeResume
    \/ \E o \in IoOutcomes : ConnectSetTimeout(o)
    \/ \E o \in DecodedOutcomes : GetBootInfo(o)
    \/ Returned
    \/ \E force \in BOOLEAN, segments \in SegmentLists :
          CallLoadSegments(force, segments)
    \/ \E segments \in SegmentLists : CallCheckSegments(segments)
    \/ \E range \in DumpRanges : CallDumpFlash(range)
    \/ \E o \in RespOutcomes : LoadBootHeader(o)
    \/ \E o \in RespOutcomes : LoadSegmentHeader(o)
    \/ \E o \in RespOutcomes : LoadSegmentData(o)
    \/ \E o \in RespOutcomes : CheckImage(o)
    \/ \E o \in RespOutcomes : RunImage(o)
    \/ \E o \in IoOutcomes : LoaderSetBaud(o)
    \/ LoadSegmentsDone
    \/ LoadSegmentsNext
    \/ \E o \in DecodedOutcomes, same \in BOOLEAN : SkipCheck(o, same)
    \/ \E o \in RespOutcomes : FlashErase(o)
    \/ \E o \in RespOutcomes : FlashProgram(o)
    \/ \E o \in DecodedOutcomes, same \in BOOLEAN : Verify(o, same)
    \/ CheckSegmentsDone
    \/ \E o \in DecodedOutcomes, same \in BOOLEAN : CheckSegment(o, same)
    \/ DumpFlashDone
    \/ \E o \in RespOutcomes \cup {"SinkIo"} :
          \E n \in PayloadLens(Min(call.range[2] - cur, BLOCK_SIZE)) :
             DumpFlashRead(o, n)

Spec == Init /\ [][Next]_vars

(***************************************************************************)
(* A session on a functioning chip: connect, load_segments, and            *)
(* load_segments again with the same segments and without force.           *)
(***************************************************************************)
InitChip == Start("functioning")

NextChip ==
    \/ \E o \in IoOutcomes : Connect(o)
    \/ \E o \in IoOutcomes : StartConnection(o)
    \/ \E o \in IoOutcomes : StartConnectionRound(o)
    \/ \E o \in IoOutcomes : HandshakeWrite(o)
    \/ \E o \in RespOutcomes : HandshakeRead(o)
    \/ HandshakeResume
    \/ \E o \in IoOutcomes : ConnectSetTimeout(o)
    \/ \E o \in DecodedOutcomes : GetBootInfo(o)
    \/ Returned
    \/ \E force \in BOOLEAN, segments \in SegmentLists :
          \E addrs \in {OwnAddrs(segments), SameAddrs(segments)} :
             /\ ops = 0
             /\ CallLoadSegmentsAt(force, segments, addrs)
    \/ /\ ops > 0
       /\ CallLoadSegmentsAt(FALSE, chip.prev.segments, chip.prev.addrs)
    \/ \E o \in RespOutcomes : LoadBootHeader(o)
    \/ \E o \in RespOutcomes : LoadSegmentHeader(o)
    \/ \E o \in RespOutcomes : LoadSegmentData(o)
    \/ \E o \in RespOutcomes : CheckImage(o)
    \/ \E o \in RespOutcomes : RunImage(o)
    \/ \E o \in IoOutcomes : LoaderSetBaud(o)
    \/ LoadSegmentsDone
    \/ LoadSegmentsNext
    \/ \E o \in DecodedOutcomes, same \in BOOLEAN : SkipCheck(o, same)
    \/ \E o \in RespOutcomes : FlashErase(o)
    \/ \E o \in RespOutcomes : FlashProgram(o)
    \/ \E o \in DecodedOutcomes, same \in BOOLEAN : Verify(o, same)

SpecChip == InitChip /\ [][NextChip]_vars

(***************************************************************************)
(* connect to a late chip: the reply to a training burst reaches the port  *)
(* at any time after the burst, also after the reads of its handshake have *)
(* timed out.  Nothing in start_connection or handshake discards input.    *)
(***************************************************************************)
ConnectPcs == {"start_connection", "handshake_write", "handshake_read",
               "handshake_return", "set_timeout", "get_boot_info"}

\* The reply of the chip to the oldest unanswered burst reaches the port.
ChipReply ==
    /\ chip.kind = "late"
    /\ pc \in ConnectPcs
    /\ chip.answered < chip.sent
    /\ chip' = [chip EXCEPT !.answered = @ + 1]
    /\ UNCHANGED <<pc, state, result, baud, timeout, input, hs, i, sc, wire,
                   opvars>>

InitLate == Start("late")

NextLate ==
    \/ \E o \in IoOutcomes : Connect(o)
    \/ \E o \in IoOutcomes : StartConnection(o)
    \/ \E o \in IoOutcomes : StartConnectionRound(o)
    \/ \E o \in IoOutcomes : HandshakeWrite(o)
    \/ \E o \in RespOutcomes : HandshakeRead(o)
    \/ HandshakeResume
    \/ \E o \in IoOutcomes : ConnectSetTimeout(o)
    \/ \E o \in DecodedOutcomes : GetBootInfo(o)
    \/ ChipReply

SpecLate == InitLate /\ [][NextLate]_vars

(***************************************************************************)
(* Properties                                                              *)
(***************************************************************************)
HandshakePcs == {"handshake_write", "handshake_read", "handshake_return"}

\* C1: start_connection calls reset_to_flash once, before any handshake, and
\* calls handshake at most 10 times; a handshake that succeeds is the last
\* one called and start_connection then returns Ok; connect ends with
\* ConnectionFailed exactly when 10 handshakes have failed.
C1_StartConnection ==
    /\ sc.resets <= 1
    /\ sc.calls > 0 => sc.resets = 1
    /\ sc.calls <= 10
    /\ sc.ok <= 1
    /\ sc.ok + sc.failed <= sc.calls
    /\ sc.ok = 1 => /\ sc.calls = sc.failed + 1
                    /\ pc \notin HandshakePcs \cup {"start_connection"}
                    /\ result # "ConnectionFailed"
    /\ result = "ConnectionFailed" <=> sc.failed = 10

C1_Witness ==
    /\ result = "ConnectionFailed"
    /\ sc = [resets |-> 1, calls |-> 10, ok |-> 0, failed |-> 10]
    /\ Len(wire) = 10

\* C2: in one handshake the training burst is written once; read_response(0)
\* is attempted at most 5 times, only after the burst; the handshake returns
\* Ok at the first attempt that succeeds and Timeout exactly when five
\* attempts have failed.
C2_Handshake ==
    /\ hs.reads <= 5
    /\ hs.bursts <= 1
    /\ hs.reads > 0 => hs.bursts = 1
    /\ pc = "handshake_read" => hs.bursts = 1 /\ hs.failed = hs.reads
    /\ pc = "handshake_return" =>
          /\ hs.bursts = 1
          /\ hs.res = "Ok" <=> hs.reads = hs.failed + 1
          /\ hs.res # "Ok" => hs.reads = hs.failed
          /\ hs.res = "Timeout" <=> hs.failed = 5

C2_Witness ==
    /\ pc = "handshake_return"
    /\ hs.res = "Timeout"
    /\ hs.reads = 5
    /\ hs.bursts = 1

\* C3: when a handshake returns, with Ok or with an error, the link timeout
\* is the one the handshake was entered with; when connect has failed with
\* ConnectionFailed the port's timeout is the one it had before connect.
C3_TimeoutRestored ==
    /\ pc = "handshake_return" => timeout = hs.pre
    /\ result = "ConnectionFailed" => timeout = input.port_timeout

C3_Witness ==
    /\ result = "ConnectionFailed"
    /\ sc.failed = 10
    /\ timeout = input.port_timeout
    /\ timeout # HANDSHAKE_TIMEOUT_MS

Idx == 1..Len(wire)

RECURSIVE SumSizes(_)
SumSizes(q) == IF q = <<>> THEN 0 ELSE q[1].size + SumSizes(Tail(q))

\* The FlashProgram requests of segment s, in the order sent.
ProgFrames(s) ==
    SelectSeq(wire, LAMBDA r : r.kind = "FlashProgram" /\ r.seg = s)

\* The bytes of segment s that ACKed FlashProgram requests carried.
Programmed(s) ==
    SumSizes(SelectSeq(wire, LAMBDA r : /\ r.kind = "FlashProgram"
                                        /\ r.seg = s
                                        /\ r.resp = "Ack"))

Erased(s) ==
    \E k \in Idx : /\ wire[k].kind = "FlashErase"
                   /\ wire[k].seg = s
                   /\ wire[k].resp = "Ack"

\* The program loop of segment s has ended with a read of 0 bytes.
ProgramDone(s) ==
    \/ s < seg /\ s \notin skipped
    \/ s = seg /\ pc = "sha256_verify"
    \/ \E k \in Idx : wire[k].role = "verify" /\ wire[k].seg = s

\* C4: every flash request (FlashErase, FlashProgram, FlashRead, Sha256Read)
\* is written in session state EflashLoader, after the load_eflash_loader of
\* the same operation had its RunImage ACKed.
C4_FlashNeedsLoader ==
    \A k \in Idx :
       wire[k].kind \in FlashKinds =>
          /\ wire[k].st = "EflashLoader"
          /\ \E j \in 1..(k - 1) : /\ wire[j].kind = "RunImage"
                                   /\ wire[j].resp = "Ack"

C4_Witness ==
    \E k \in Idx : /\ wire[k].kind = "FlashErase"
                   /\ wire[k].st = "EflashLoader"
                   /\ ops = 1

LoaderSucc ==
    {<<"LoadBootHeader", "LoadSegmentHeader">>,
     <<"LoadSegmentHeader", "LoadSegmentData">>,
     <<"LoadSegmentHeader", "CheckImage">>,
     <<"LoadSegmentData", "LoadSegmentData">>,
     <<"LoadSegmentData", "CheckImage">>,
     <<"CheckImage", "RunImage">>,
     <<"RunImage", "Burst">>}

RunImageAcked ==
    \E k \in Idx : wire[k].kind = "RunImage" /\ wire[k].resp = "Ack"

\* C5: the requests of load_eflash_loader go out in the order LoadBootHeader,
\* LoadSegmentHeader, LoadSegmentData*, CheckImage, RunImage, each only after
\* the one before it was ACKed; a failed one is the last thing sent and its
\* error is returned; the baud is the one load_eflash_loader was entered with
\* (the initial baud, in the first operation of a session) until RunImage is
\* ACKed, and the training burst goes out at flash_speed.
C5_LoaderOrder ==
    call.op # "none" =>
       /\ \A k \in Idx :
             wire[k].kind \in LoaderKinds \cup {"Burst"} =>
                /\ k = 1 => wire[k].kind = "LoadBootHeader"
                /\ k > 1 => /\ <<wire[k - 1].kind, wire[k].kind>> \in LoaderSucc
                            /\ wire[k - 1].resp = "Ack"
                /\ wire[k].resp \notin {"Ack", "-"} =>
                      /\ k = Len(wire)
                      /\ pc = "returned"
                      /\ result = wire[k].resp
                /\ wire[k].kind = "Burst" =>
                      /\ baud = input.flash_speed
                      /\ wire[k].size = calc_duration_length(input.flash_speed, 5)
       /\ ~RunImageAcked =>
             /\ baud = call.baud0
             /\ ops = 1 => baud = input.initial_speed
       /\ pc = "check_image" =>
             SumSizes(SelectSeq(wire, LAMBDA r : r.kind = "LoadSegmentData"))
                = input.loader_len - LOAD_BOOT_HEADER_LEN
                                   - LOAD_SEGMENT_HEADER_LEN

C5_Witness ==
    /\ pc = "returned"
    /\ result = "Nack"
    /\ wire[Len(wire)].kind = "RunImage"
    /\ \E k \in Idx : wire[k].kind = "LoadSegmentData"
    /\ input.flash_speed # input.initial_speed
    /\ baud = input.initial_speed

\* C6: in load_segments a segment whose sha256, read before any modification,
\* equals the local one is skipped: that Sha256Read is the only request of
\* the segment (no FlashErase, no FlashProgram), it is no error, and the next
\* request sent belongs to the next segment.
C6_SkipMatching ==
    call.op = "load_segments" =>
       \A k \in Idx :
          wire[k].role = "pre" /\ wire[k].same =>
             /\ ~call.force
             /\ wire[k].seg \in skipped
             /\ seg > wire[k].seg
             /\ \A j \in Idx :
                   wire[j].seg = wire[k].seg =>
                      /\ wire[j].kind \notin {"FlashErase", "FlashProgram"}
                      /\ j = k
             /\ k < Len(wire) => wire[k + 1].seg = wire[k].seg + 1
             /\ k = Len(wire) /\ pc = "returned" => result = "Ok"

C6_Witness ==
    /\ call.op = "load_segments"
    /\ \E k \in Idx : /\ wire[k].role = "pre"
                      /\ wire[k].same
                      /\ SegSize(wire[k].seg) > 0
                      /\ k + 2 <= Len(wire)
                      /\ wire[k + 2].kind = "FlashErase"

\* C7: in load_segments with force = true no Sha256Read is sent before the
\* erase, no segment is skipped, and every segment the loop has passed was
\* erased and programmed in full; Ok means the loop passed every segment.
C7_Force ==
    call.op = "load_segments" /\ call.force =>
       /\ \A k \in Idx : wire[k].role # "pre"
       /\ skipped = {}
       /\ \A s \in 1..Len(call.segments) :
             s < seg => Erased(s) /\ Programmed(s) = SegSize(s)
       /\ pc = "returned" /\ result = "Ok" => seg = Len(call.segments) + 1

C7_Witness ==
    /\ call.op = "load_segments"
    /\ call.force
    /\ pc = "returned"
    /\ result = "Ok"
    /\ Len(call.segments) = 2
    /\ \A s \in 1..2 : SegSize(s) > 0 /\ Erased(s)
    /\ \E k \in Idx : wire[k].role = "verify" /\ wire[k].same

Rank(r) ==
    CASE r.role = "pre" -> 0
      [] r.kind = "FlashErase" -> 1
      [] r.kind = "FlashProgram" -> 2
      [] r.role = "verify" -> 3
      [] OTHER -> 4

\* C8: in load_segments the requests of a segment precede those of the next;
\* within a segment that is not skipped there is one FlashErase(addr,
\* addr + size), sent before every FlashProgram, and the verifying
\* Sha256Read(addr, size) is sent after all of them, when the whole segment
\* has been programmed.
C8_Order ==
    call.op = "load_segments" =>
       /\ \A j, k \in Idx :
             j < k /\ wire[j].seg > 0 =>
                /\ wire[j].seg <= wire[k].seg
                /\ wire[j].seg = wire[k].seg =>
                      /\ Rank(wire[j]) <= Rank(wire[k])
                      /\ Rank(wire[j]) = Rank(wire[k]) =>
                            wire[k].kind = "FlashProgram"
       /\ \A k \in Idx :
             /\ wire[k].kind = "FlashErase" =>
                   /\ wire[k].addr = SegAddr(wire[k].seg)
                   /\ wire[k].arg = SegAddr(wire[k].seg) + SegSize(wire[k].seg)
             /\ wire[k].kind = "FlashProgram" =>
                   \E j \in 1..(k - 1) : /\ wire[j].kind = "FlashErase"
                                         /\ wire[j].seg = wire[k].seg
                                         /\ wire[j].resp = "Ack"
             /\ wire[k].role = "verify" =>
                   /\ wire[k].addr = SegAddr(wire[k].seg)
                   /\ wire[k].arg = SegSize(wire[k].seg)
                   /\ Erased(wire[k].seg)
                   /\ Programmed(wire[k].seg) = SegSize(wire[k].seg)
       /\ \A s \in 1..Len(call.segments) :
             s < seg /\ s \notin skipped =>
                /\ Erased(s)
                /\ \E k \in Idx : /\ wire[k].role = "verify"
                                  /\ wire[k].seg = s
                                  /\ wire[k].resp = "Ack"

C8_Witness ==
    /\ call.op = "load_segments"
    /\ pc = "returned"
    /\ result = "Ok"
    /\ Len(ProgFrames(1)) = 2
    /\ \E k \in Idx : wire[k].role = "verify" /\ wire[k].seg = 1
    /\ Len(ProgFrames(2)) = 2

\* C9: the FlashProgram requests of a segment of n bytes partition it in
\* order: each carries 1..4000 bytes (all but the last 4000), at the address
\* addr + the bytes of the frames before it, with length field size + 4; when
\* the loop has ended the sizes sum to n in ceil(n / 4000) frames, so that no
\* empty frame is sent.
C9_Frames ==
    call.op = "load_segments" =>
       \A s \in 1..Len(call.segments) :
          LET f == ProgFrames(s) IN
          /\ \A k \in 1..Len(f) :
                /\ f[k].size >= 1
                /\ f[k].size <= 4000
                /\ f[k].addr = SegAddr(s) + SumSizes(SubSeq(f, 1, k - 1))
                /\ f[k].len = f[k].size + 4
                /\ k < Len(f) => f[k].size = 4000 /\ f[k].resp = "Ack"
          /\ SumSizes(f) <= SegSize(s)
          /\ ProgramDone(s) =>
                /\ SumSizes(f) = SegSize(s)
                /\ Programmed(s) = SegSize(s)
                /\ Len(f) = (SegSize(s) + 3999) \div 4000

C9_Witness ==
    /\ call.op = "load_segments"
    /\ pc = "sha256_verify"
    /\ SegSize(seg) = 8000
    /\ Len(ProgFrames(seg)) = 2
    /\ \E s \in 1..Len(call.segments) :
          /\ s < seg
          /\ SegSize(s) = 4001
          /\ Len(ProgFrames(s)) = 2
          /\ ProgFrames(s)[2].size = 1

\* C10: a digest read back after programming that differs from the local one
\* is logged and is no error: the loop goes on to the next segment, and
\* load_segments returns Ok when every request it sent was ACKed.
C10_MismatchWarns ==
    call.op = "load_segments" =>
       /\ \A k \in Idx :
             wire[k].role = "verify" /\ wire[k].resp = "Ack" /\ ~wire[k].same
                => /\ wire[k].seg \in warned
                   /\ seg > wire[k].seg
                   /\ pc = "returned" /\ k = Len(wire) => result = "Ok"
       /\ ( /\ pc = "returned"
            /\ \E k \in Idx : wire[k].kind \in FlashKinds
            /\ \A k \in Idx : wire[k].resp \in {"Ack", "-"} )
          => result = "Ok"

C10_Witness ==
    /\ call.op = "load_segments"
    /\ pc = "returned"
    /\ result = "Ok"
    /\ 1 \in warned
    /\ \E k \in Idx : /\ wire[k].role = "verify"
                      /\ wire[k].seg = 1
                      /\ ~wire[k].same
                      /\ k < Len(wire)
                      /\ wire[k + 1].seg = 2

\* The second of two load_segments calls with the same segments, the first
\* of them without force and returned Ok.
SecondCall ==
    /\ ops > 1
    /\ call.op = "load_segments"
    /\ chip.prev.op = "load_segments"
    /\ ~chip.prev.force
    /\ ~call.force
    /\ call.segments = chip.prev.segments
    /\ call.addrs = chip.prev.addrs

NoFlashWrites ==
    \A k \in Idx : wire[k].kind \notin {"FlashErase", "FlashProgram"}

AllPreReadsMatch ==
    \A k \in Idx : (wire[k].role = "pre" /\ wire[k].resp = "Ack") => wire[k].same

\* C11 as stated: load_segments(force=false, S) called twice in a row on a
\* session: the second call gets a matching remote sha256 for every segment
\* and sends no FlashErase and no FlashProgram.
C11_SecondCallSkips ==
    SecondCall => NoFlashWrites /\ AllPreReadsMatch

\* C11, amended: on a functioning chip, for segments whose address ranges do
\* not overlap, the second of two load_segments(force=false, S) calls gets a
\* matching remote sha256 for every segment it asks about and sends no
\* FlashErase and no FlashProgram.
C11_SecondCallSkipsDisjoint ==
    (SecondCall /\ call.addrs = OwnAddrs(call.segments)) =>
        NoFlashWrites /\ AllPreReadsMatch

C11_Witness ==
    /\ SecondCall
    /\ call.addrs = OwnAddrs(call.segments)
    /\ Len(call.segments) >= 2
    /\ \A s \in 1..Len(call.segments) : SegSize(s) > 0 /\ s \in skipped
    /\ chip.flash[1] = [data |-> SegSize(1), len |-> SegSize(1)]
    /\ pc = "returned"
    /\ result = "Ok"

\* C12: a driver operation called on a session whose eflash loader is
\* already running does not upload the loader again: no LoadBootHeader,
\* LoadSegmentHeader, LoadSegmentData, CheckImage or RunImage request is sent
\* in the EflashLoader state.
C12_LoaderOnlyIfNeeded ==
    \A k \in Idx : wire[k].kind \in LoaderKinds => wire[k].st # "EflashLoader"

FlashReadIdx == {k \in Idx : wire[k].kind = "FlashRead"}

\* C13: dump_flash(r, sink) asks for min(4096, r.end - cur) bytes at
\* ascending addresses, and when it returns Ok the sink has got exactly
\* r.end - r.start bytes.
C13_DumpExact ==
    call.op = "dump_flash" =>
        /\ \A k \in FlashReadIdx :
              /\ wire[k].arg = Min(BLOCK_SIZE, call.range[2] - wire[k].addr)
              /\ \A j \in FlashReadIdx : j < k => wire[j].addr <= wire[k].addr
        /\ (pc = "returned" /\ result = "Ok") =>
              sink = call.range[2] - call.range[1]

ZeroSegs == {s \in 1..Len(call.segments) : SegSize(s) = 0}

\* No FlashErase and no FlashProgram of segment s was sent.
Untouched(s) ==
    \A k \in Idx : wire[k].seg = s =>
        wire[k].kind \notin {"FlashErase", "FlashProgram"}

\* C14 as stated: a zero-length segment of load_segments triggers no
\* FlashErase and no FlashProgram and is skipped as matching.
C14_ZeroLength ==
    call.op = "load_segments" =>
        \A s \in ZeroSegs : Untouched(s) /\ (s < seg => s \in skipped)

\* C14, amended: without force, on a functioning chip, a zero-length segment
\* of load_segments triggers no FlashErase and no FlashProgram and is
\* skipped as matching; with force it is never programmed.
C14_ZeroLengthNoForce ==
    call.op = "load_segments" =>
        \A s \in ZeroSegs :
           /\ ProgFrames(s) = <<>>
           /\ ~call.force => Untouched(s) /\ (s < seg => s \in skipped)

C14_Witness ==
    /\ call.op = "load_segments"
    /\ ~call.force
    /\ pc = "returned"
    /\ result = "Ok"
    /\ ZeroSegs = {1}
    /\ skipped = {1}
    /\ Len(call.segments) = 2
    /\ Erased(2)

\* C15: the 16-bit length field of a request is the number of bytes that
\* follow it: 176 in LoadBootHeader, 16 in LoadSegmentHeader, the chunk
\* length in LoadSegmentData, the chunk length plus 4 in FlashProgram, for
\* chunks of 1..4000 bytes without wrapping.
C15_LengthFields ==
    \A k \in Idx :
       /\ wire[k].kind = "LoadBootHeader" =>
             wire[k].size = 176 /\ wire[k].len = 176
       /\ wire[k].kind = "LoadSegmentHeader" =>
             wire[k].size = 16 /\ wire[k].len = 16
       /\ wire[k].kind = "LoadSegmentData" =>
             wire[k].size \in 1..4000 /\ wire[k].len = wire[k].size
       /\ wire[k].kind = "FlashProgram" =>
             wire[k].size \in 1..4000 /\ wire[k].len = wire[k].size + 4

C15_Witness ==
    /\ \E k \in Idx : wire[k].kind = "LoadBootHeader" /\ wire[k].len = 176
    /\ \E k \in Idx : wire[k].kind = "LoadSegmentHeader" /\ wire[k].len = 16
    /\ \E k \in Idx : wire[k].kind = "LoadSegmentData" /\ wire[k].len = 1
    /\ \E k \in Idx : wire[k].kind = "FlashProgram" /\ wire[k].len = 4004

\* The exchange of request k failed: NAK, timeout, I/O error, a response
\* that does not decode, or the sink of dump_flash refusing the payload.
Failed(k) == wire[k].resp \notin {"Ack", "-"}

\* C16: in a driver operation a request whose exchange fails is the last
\* request written: it is not written again, nothing follows it, and the
\* operation returns the error.
C16_NoRetry ==
    call.op # "none" =>
        \A k \in Idx : Failed(k) =>
            /\ k = Len(wire)
            /\ pc = "returned"
            /\ result = IF wire[k].resp = "SinkIo" THEN "Io" ELSE wire[k].resp

C16_Witness ==
    /\ call.op = "load_segments"
    /\ pc = "returned"
    /\ result = "Nack"
    /\ wire[Len(wire)].kind = "FlashErase"
    /\ wire[Len(wire)].resp = "Nack"
    /\ \A k \in Idx : wire[k].kind # "FlashProgram"

ShaReads == SelectSeq(wire, LAMBDA r : r.kind = "Sha256Read")

\* C17: check_segments sends no FlashErase and no FlashProgram; it sends
\* Sha256Read(addr, size) for the segments in order; an answered Sha256Read
\* never ends it, whether the digest matches or not, and it returns Ok when
\* all segments were answered.
C17_CheckOnly ==
    call.op = "check_segments" =>
        /\ \A k \in Idx :
              wire[k].kind \notin {"FlashErase", "FlashProgram", "FlashRead"}
        /\ Len(ShaReads) <= Len(call.segments)
        /\ \A n \in 1..Len(ShaReads) :
              /\ ShaReads[n].seg = n
              /\ ShaReads[n].addr = SegAddr(n)
              /\ ShaReads[n].arg = SegSize(n)
              /\ ShaReads[n].st = "EflashLoader"
        /\ (pc = "returned" /\ result = "Ok") =>
              Len(ShaReads) = Len(call.segments)
        /\ \A n \in 1..Len(ShaReads) :
              (n = Len(ShaReads) /\ ShaReads[n].resp = "Ack") =>
                  \/ pc = "check_segments"
                  \/ pc = "returned" /\ result = "Ok"

C17_Witness ==
    /\ call.op = "check_segments"
    /\ pc = "returned"
    /\ result = "Ok"
    /\ Len(ShaReads) = 2
    /\ ShaReads[1].same
    /\ ~ShaReads[2].same
    /\ warned = {2}

GetBootInfos == {k \in Idx : wire[k].kind = "GetBootInfo"}

\* C18: connect sends GetBootInfo at most once, only after a handshake has
\* succeeded and with the link timeout at 10 s; the requests before it are
\* the training bursts of the handshakes up to the first that succeeded;
\* a connect that returns Ok has sent it, a connect that fails with
\* ConnectionFailed has not, and no driver operation sends it.
C18_GetBootInfo ==
    /\ Cardinality(GetBootInfos) <= 1
    /\ \A k \in GetBootInfos :
          /\ call.op = "none"
          /\ k = Len(wire)
          /\ sc.ok = 1
          /\ timeout = CONNECT_TIMEOUT_MS
          /\ \A j \in 1..(k - 1) : wire[j].kind = "Burst"
          /\ k - 1 = sc.failed + 1
    /\ pc = "get_boot_info" => sc.ok = 1 /\ timeout = CONNECT_TIMEOUT_MS
    /\ (pc = "returned" /\ call.op = "none") => GetBootInfos # {}
    /\ result = "ConnectionFailed" => GetBootInfos = {} /\ pc = "dead"

C18_Witness ==
    /\ pc = "returned"
    /\ result = "Ok"
    /\ call.op = "none"
    /\ sc.failed = 2
    /\ GetBootInfos = {4}
    /\ timeout = CONNECT_TIMEOUT_MS

\* C20: the read cursor of dump_flash strictly increases from one iteration
\* of its loop to the next (so that the loop ends after at most
\* r.end - r.start iterations).
C20_CursorAdvances ==
    \A j, k \in FlashReadIdx : j < k => wire[j].addr < wire[k].addr

\* C19: one request is in flight at a time: a request is written only after
\* the exchange of the one before it has ended (a burst: after the reads of
\* its handshake), and the response a handshake or a command reads is the
\* reply to its own burst or request, never a leftover reply to an earlier
\* training burst.
C19_OwnReply ==
    /\ hs.bursts <= 1
    /\ \A k \in Idx : (k < Len(wire) /\ wire[k].kind # "Burst") =>
          wire[k].resp # "-"
    /\ ~chip.stale

====
